---------------------------- MODULE Spec2Model ----------------------------
(***************************************************************************)
(* FloatChat: NetCDF profile extraction and flattening.                    *)
(*                                                                         *)
(* The module models                                                       *)
(*   - the Django ingestion task (dataset_app/tasks.py): the task          *)
(*     process_netcdf_file_task, parse_netcdf_data and generate_embeddings,*)
(*     together with the views that create datasets and dispatch the task  *)
(*     (dataset_app/views.py);                                             *)
(*   - the per-profile extraction of EnhancedArgoProcessor                 *)
(*     (fastapi_service/enhanced_argo_processor.py).                       *)
(*                                                                         *)
(* Three specifications share the variables:                               *)
(*   Spec       one dataset, its views and up to MaxRuns interleaved runs  *)
(*              of the task (duplicate deliveries included);               *)
(*   SpecParse  one run of the task over every file of ParseFiles;         *)
(*   SpecArgo   EnhancedArgoProcessor over every profile of ArgoProfiles.  *)
(***************************************************************************)
EXTENDS Integers, Sequences, FiniteSets, TLC

(***************************************************************************)
(* Bounds of the model.                                                    *)
(***************************************************************************)
\* number of profiles (N_PROF) of a generated file
MaxProf == 2
\* number of levels (N_LEVELS) of a generated array
MaxLevels == 2
\* task executions that may overlap on the one dataset
MaxRuns == 2
\* duplicate deliveries of a task message by the broker
MaxRedeliver == 1
\* calls of the `process` action
MaxCalls == 2
\* calls of generate_fallback_embedding
MaxFallbackCalls == 2
\* the flush threshold of parse_netcdf_data; the code's value is 1000
\* (tasks.py:371), scaled down so that a generated file can reach it
BatchThreshold == 3

(***************************************************************************)
(* Floating point values.  A float is a record so that NaN, the infinities *)
(* and Python's None can sit in the same arrays as the numbers.            *)
(***************************************************************************)
Num(n) == [k |-> "num", v |-> n]
NaN == [k |-> "nan", v |-> 0]
PosInf == [k |-> "inf", v |-> 1]
NegInf == [k |-> "inf", v |-> -1]
None == [k |-> "none", v |-> 0]

\* np.isnan on a float
isnan(x) == x.k = "nan"
\* np.isinf on a float
isinf(x) == x.k = "inf"
\* a <= b in IEEE arithmetic: false when either side is NaN
Le(a, b) ==
    IF isnan(a) \/ isnan(b) THEN FALSE
    ELSE IF a = NegInf \/ b = PosInf THEN TRUE
    ELSE IF a = PosInf \/ b = NegInf THEN FALSE
    ELSE a.v <= b.v
\* a < b in IEEE arithmetic
Lt(a, b) == Le(a, b) /\ a # b

(***************************************************************************)
(* Sequence helpers.                                                       *)
(***************************************************************************)
Max2(a, b) == IF a >= b THEN a ELSE b
Range(s) == {s[i] : i \in 1..Len(s)}
\* all sequences over S of length exactly n
SeqsOfLen(S, n) == [1..n -> S]
\* all sequences over S of length 1..n
SeqsUpTo(S, n) == UNION {SeqsOfLen(S, m) : m \in 1..n}

(***************************************************************************)
(* The NetCDF file.  A file lists its variable names in order and carries  *)
(* the arrays of the six channels.  An array is [ndim, data]: data is the  *)
(* sequence of per-profile rows for ndim = 2, one row for ndim = 1 and one *)
(* row holding one value for a scalar.  Masked entries are the NaN that    *)
(* .filled(np.nan) makes of them.                                          *)
(***************************************************************************)
Arr2(rows) == [ndim |-> 2, data |-> rows]
Arr1(row) == [ndim |-> 1, data |-> <<row>>]
Arr0(x) == [ndim |-> 0, data |-> <<(<<x>>)>>]

MkFile(readable, variables, lats, lons, pres, temp, psal) ==
    [readable |-> readable, variables |-> variables,
     latitudes |-> lats, longitudes |-> lons,
     pres |-> pres, temp |-> temp, psal |-> psal]

\* str.lower() on the variable names the model uses
lower(v) ==
    CASE v = "JULD" -> "juld"
      [] v = "TIME" -> "time"
      [] v = "LATITUDE" -> "latitude"
      [] v = "Lat" -> "lat"
      [] v = "LONGITUDE" -> "longitude"
      [] v = "Lon" -> "lon"
      [] v = "PRES" -> "pres"
      [] v = "PRES_ADJUSTED" -> "pres_adjusted"
      [] v = "TEMP" -> "temp"
      [] v = "Temperature" -> "temperature"
      [] v = "PSAL" -> "psal"
      [] v = "Salinity" -> "salinity"
      [] OTHER -> v

\* var_lower_map = {v.lower(): v for v in variables}: a later name wins
var_lower_map(variables) ==
    [key \in {lower(variables[i]) : i \in 1..Len(variables)} |->
        LET hits == {i \in 1..Len(variables) : lower(variables[i]) = key}
        IN  variables[CHOOSE i \in hits : \A j \in hits : j <= i]]

time_names == <<"juld", "time", "date">>
lat_names == <<"latitude", "lat">>
lon_names == <<"longitude", "lon">>
pres_names == <<"pres", "pressure", "pres_adjusted">>
temp_names == <<"temp", "temperature", "temp_adjusted">>
psal_names == <<"psal", "salinity", "psal_adjusted">>

\* the loops without their `break`: the last alias that matches wins
LocateLastAlias(aliases, variables) ==
    LET m == var_lower_map(variables)
        hits == {i \in 1..Len(aliases) : aliases[i] \in DOMAIN m}
    IN  IF hits = {} THEN ""
        ELSE m[aliases[CHOOSE i \in hits : \A j \in hits : j <= i]]

\* the `for name in aliases: if name in var_lower_map: ...; break` loops:
\* the variable of the first alias that matches, "" (None) when none does
Locate(aliases, variables) ==
    LET m == var_lower_map(variables)
        hits == {i \in 1..Len(aliases) : aliases[i] \in DOMAIN m}
    IN  IF hits = {} THEN ""
        ELSE m[aliases[CHOOSE i \in hits : \A j \in hits : i <= j]]

time_var(f) == Locate(time_names, f.variables)
lat_var(f) == Locate(lat_names, f.variables)
lon_var(f) == Locate(lon_names, f.variables)
pres_var(f) == Locate(pres_names, f.variables)
temp_var(f) == Locate(temp_names, f.variables)
psal_var(f) == Locate(psal_names, f.variables)

\* the check with `or` for `and`: raises only when both are missing
MissingPositionBoth(f) == ~(lat_var(f) # "" \/ lon_var(f) # "")

\* `if not (lat_var is not None and lon_var is not None): raise ValueError`
MissingPosition(f) == ~(lat_var(f) # "" /\ lon_var(f) # "")

\* n_profiles = len(latitudes)
n_profiles(f) == Len(f.latitudes)

\* time_var[:] converted by num2date: one datetime per profile.  A datetime
\* is a number; the files of the model date profile i at i.
time_data(f) == [i \in 1..Len(f.latitudes) |-> i]

\* the readings datetime.now() can give
ClockVals == {1, 3}

\* lines 197-240: the converted times of the file, or the current time for
\* every profile when the file has no time variable
times(f, now) ==
    IF time_var(f) # "" THEN time_data(f)
    ELSE [i \in 1..Len(f.latitudes) |-> now]

(***************************************************************************)
(* The profile walker of parse_netcdf_data.  prof_idx is 0-based as in the *)
(* code; sequences are 1-based.                                            *)
(***************************************************************************)
\* a row of a 2-D variable the read of which raises (`pres_var[prof_idx, :]`
\* inside the try of lines 269-279)
ReadError == <<[k |-> "error", v |-> 0]>>

\* pressures of a profile; [None] when the variable is absent, is neither
\* 1-D nor 2-D, or the read raises
pressures(f, prof_idx) ==
    IF pres_var(f) = "" THEN <<None>>
    ELSE IF f.pres.ndim = 2
         THEN IF prof_idx + 1 <= Len(f.pres.data)
                    /\ f.pres.data[prof_idx + 1] # ReadError
              THEN f.pres.data[prof_idx + 1] ELSE <<None>>
    ELSE IF f.pres.ndim = 1 THEN f.pres.data[1]
    ELSE <<None>>

\* the rows of temperature and salinity; [] when the variable is absent or
\* the read raises.  A scalar variable is read as var[prof_idx], which
\* netCDF4 serves as an array of shape (1,): index 0 only.
ChannelRow(var, arr, prof_idx) ==
    IF var = "" THEN <<>>
    ELSE IF arr.ndim = 2
         THEN IF prof_idx + 1 <= Len(arr.data)
              THEN arr.data[prof_idx + 1] ELSE <<>>
    ELSE IF arr.ndim = 1 THEN arr.data[1]
    ELSE IF prof_idx = 0 THEN arr.data[1] ELSE <<>>

temperatures(f, prof_idx) == ChannelRow(temp_var(f), f.temp, prof_idx)
salinities(f, prof_idx) == ChannelRow(psal_var(f), f.psal, prof_idx)

\* NetCDFValue(dataset, variable, time, lat, lon, depth, value)
NetCDFValue(variable, time, lat, lon, depth, value) ==
    [variable |-> variable, time |-> time, lat |-> lat, lon |-> lon,
     depth |-> depth, value |-> value]

\* the temperature and salinity records: NaN and the infinities are dropped
SampleAccepted(row, level_idx) ==
    /\ level_idx <= Len(row)
    /\ ~isnan(row[level_idx])
    /\ ~isinf(row[level_idx])

\* the standalone pressure record: `if depth is not None and pres_var is not None`
PressureAccepted(f, depth) == depth # None /\ pres_var(f) # ""

\* depth = float(pressures[i]) if i < len(pressures) and not np.isnan(pressures[i]) else None
DepthOf(ps, level_idx) ==
    IF level_idx <= Len(ps) /\ ~isnan(ps[level_idx]) THEN ps[level_idx] ELSE None

\* the records one level appends to records_to_create, in the code's order
LevelRecords(f, time, lat, lon, ps, ts, ss, level_idx) ==
    LET depth == DepthOf(ps, level_idx)
    IN  (IF SampleAccepted(ts, level_idx)
         THEN <<NetCDFValue("temperature", time, lat, lon, depth, ts[level_idx])>>
         ELSE <<>>)
        \o
        (IF SampleAccepted(ss, level_idx)
         THEN <<NetCDFValue("salinity", time, lat, lon, depth, ss[level_idx])>>
         ELSE <<>>)
        \o
        (IF PressureAccepted(f, depth)
         THEN <<NetCDFValue("pressure", time, lat, lon, depth, depth)>>
         ELSE <<>>)

\* np.isnan(None) raises TypeError
IsNanRaises(ps, level_idx) == level_idx <= Len(ps) /\ ps[level_idx] = None

\* `for level_idx in range(max_levels)`: the records appended, and whether
\* the loop was left by an exception (what was appended before it stays)
RECURSIVE WalkLevels(_, _, _, _, _, _, _, _, _)
WalkLevels(f, time, lat, lon, ps, ts, ss, level_idx, max_levels) ==
    IF level_idx > max_levels THEN [raised |-> FALSE, recs |-> <<>>]
    ELSE IF IsNanRaises(ps, level_idx) THEN [raised |-> TRUE, recs |-> <<>>]
    ELSE LET rest == WalkLevels(f, time, lat, lon, ps, ts, ss, level_idx + 1, max_levels)
         IN  [raised |-> rest.raised,
              recs |-> LevelRecords(f, time, lat, lon, ps, ts, ss, level_idx) \o rest.recs]

\* `if np.isnan(lat) or np.isnan(lon): continue`
InvalidPosition(lat, lon) == isnan(lat) \/ isnan(lon)

\* the region test without the eastern bound
InIndianOceanNoEast(lat, lon) ==
    /\ Le(Num(20), lon)
    /\ Le(Num(-60), lat) /\ Le(lat, Num(30))

\* `20 <= lon <= 150 and -60 <= lat <= 30`
InIndianOcean(lat, lon) ==
    /\ Le(Num(20), lon) /\ Le(lon, Num(150))
    /\ Le(Num(-60), lat) /\ Le(lat, Num(30))

\* one iteration of `for prof_idx in range(n_profiles)` up to the flush:
\*   kind "skipped": left by `continue` (position invalid or out of region)
\*   kind "raised":  left by an exception, caught by the profile's except
\*   kind "walked":  the level loop finished; the flush check follows
ProfileOutcome(f, prof_idx, now) ==
    IF prof_idx + 1 > Len(f.longitudes)
    THEN [kind |-> "raised", recs |-> <<>>]
    ELSE LET lat == f.latitudes[prof_idx + 1]
             lon == f.longitudes[prof_idx + 1]
             time == times(f, now)[prof_idx + 1]
             ps == pressures(f, prof_idx)
             ts == temperatures(f, prof_idx)
             ss == salinities(f, prof_idx)
             max_levels == Max2(Len(ps), Max2(Len(ts), Len(ss)))
             w == WalkLevels(f, time, lat, lon, ps, ts, ss, 1, max_levels)
         IN  IF InvalidPosition(lat, lon) \/ ~InIndianOcean(lat, lon)
             THEN [kind |-> "skipped", recs |-> <<>>]
             ELSE [kind |-> IF w.raised THEN "raised" ELSE "walked",
                   recs |-> w.recs]

(***************************************************************************)
(* The files the specifications range over.                                *)
(***************************************************************************)
ArgoVars == <<"JULD", "LATITUDE", "LONGITUDE", "PRES", "TEMP", "PSAL">>

\* positions: corners of the region, just outside each side, NaN
Positions ==
    {<<Num(0), Num(80)>>, <<Num(-60), Num(20)>>, <<Num(30), Num(150)>>,
     <<Num(31), Num(80)>>, <<Num(-61), Num(80)>>,
     <<Num(0), Num(19)>>, <<Num(0), Num(151)>>,
     <<NaN, Num(80)>>, <<Num(0), NaN>>}
PresVals == {Num(10), Num(50), Num(9999), NaN, PosInf}
TempVals == {Num(5), NaN, PosInf}
SalVals == {Num(35), NaN, NegInf}

\* every profile at a position of Positions, one level per channel
PositionFiles ==
    {MkFile(TRUE, ArgoVars,
            [i \in DOMAIN pos |-> pos[i][1]], [i \in DOMAIN pos |-> pos[i][2]],
            Arr1(<<Num(10)>>), Arr1(<<Num(5)>>), Arr1(<<Num(35)>>)) :
        pos \in UNION {SeqsOfLen(Positions, n) : n \in 1..MaxProf}}

\* one profile in the region, every pressure and temperature column
ValueFiles ==
    UNION {{MkFile(TRUE, <<"LATITUDE", "LONGITUDE", "PRES", "TEMP">>,
                   <<Num(0)>>, <<Num(80)>>, Arr1(ps), Arr1(ts), Arr1(<<>>)) :
              ps \in SeqsOfLen(PresVals, n), ts \in SeqsOfLen(TempVals, n)} :
           n \in 1..MaxLevels}

\* one profile in the region, every salinity column
SalinityFiles ==
    {MkFile(TRUE, <<"LATITUDE", "LONGITUDE", "PRES", "PSAL">>,
            <<Num(0)>>, <<Num(80)>>, Arr1(<<Num(10)>>), Arr1(<<>>), Arr1(ss)) :
        ss \in SeqsUpTo(SalVals, MaxLevels)}

\* MaxProf profiles at different positions in the region; the pressure row
\* of each is read or raises
FaultyFiles ==
    {MkFile(TRUE, ArgoVars,
            [i \in 1..MaxProf |-> Num(0)], [i \in 1..MaxProf |-> Num(80 + i)],
            Arr2(ps), Arr2([i \in 1..MaxProf |-> <<Num(5)>>]), Arr1(<<>>)) :
        ps \in SeqsOfLen({<<Num(10)>>, ReadError}, MaxProf)}

\* MaxProf profiles in the region; each channel absent, scalar, 1-D or 2-D
Shaped(shape, x) ==
    IF shape = 2 THEN Arr2([i \in 1..MaxProf |-> <<x, x>>])
    ELSE IF shape = 1 THEN Arr1(<<x, x>>)
    ELSE Arr0(x)
ShapeFiles ==
    {MkFile(TRUE,
            <<"LATITUDE", "LONGITUDE">>
              \o (IF sp >= 0 THEN <<"PRES">> ELSE <<>>)
              \o (IF st >= 0 THEN <<"TEMP">> ELSE <<>>)
              \o (IF ss >= 0 THEN <<"PSAL">> ELSE <<>>),
            [i \in 1..MaxProf |-> Num(0)], [i \in 1..MaxProf |-> Num(80)],
            Shaped(sp, Num(10)), Shaped(st, Num(5)),
            Shaped(ss, Num(35))) :
        sp \in -1..2, st \in -1..2, ss \in -1..2}

\* variable lists: names in other cases and under other aliases, position
\* variables missing
VarLists ==
    {ArgoVars,
     <<"Lat", "Lon", "PRES_ADJUSTED", "Temperature", "Salinity">>,
     <<"TIME", "Lat", "LONGITUDE", "TEMP", "Temperature">>,
     <<"JULD", "LONGITUDE", "PRES", "TEMP", "PSAL">>,
     <<"JULD", "LATITUDE", "PRES", "TEMP", "PSAL">>,
     <<"JULD", "PRES", "TEMP", "PSAL">>,
     <<"Lon", "TEMP">>}
LocatorFiles ==
    {MkFile(TRUE, vs, <<Num(0), Num(-30)>>, <<Num(80), Num(60)>>,
            Arr1(<<Num(10)>>), Arr1(<<Num(5)>>), Arr1(<<Num(35)>>)) :
        vs \in VarLists}

\* a file nc.Dataset cannot open
UnreadableFile ==
    MkFile(FALSE, ArgoVars, <<Num(0)>>, <<Num(80)>>,
           Arr1(<<Num(10)>>), Arr1(<<Num(5)>>), Arr1(<<Num(35)>>))

\* three profiles in the region, each with pressure levels [10, 50, 9999]
ScenarioB ==
    MkFile(TRUE, <<"LATITUDE", "LONGITUDE", "PRES", "TEMP", "PSAL">>,
           <<Num(0), Num(0), Num(0)>>, <<Num(80), Num(80), Num(80)>>,
           Arr2([i \in 1..3 |-> <<Num(10), Num(50), Num(9999)>>]),
           Arr2([i \in 1..3 |-> <<Num(5), Num(5), Num(5)>>]),
           Arr2([i \in 1..3 |-> <<Num(35), Num(35), Num(35)>>]))

ParseFiles ==
    PositionFiles \cup ValueFiles \cup SalinityFiles \cup ShapeFiles
        \cup LocatorFiles \cup FaultyFiles \cup {UnreadableFile, ScenarioB}

\* the files of the lifecycle specification: MaxProf two-level profiles in
\* the region, the same without a latitude variable, and the unreadable file
LifecycleFiles ==
    {MkFile(TRUE, vs, [i \in 1..MaxProf |-> Num(0)], [i \in 1..MaxProf |-> Num(80)],
            Arr1(<<Num(10), Num(50)>>), Arr1(<<Num(5), Num(5)>>), Arr1(<<>>)) :
        vs \in {<<"JULD", "LATITUDE", "LONGITUDE", "PRES", "TEMP">>,
                <<"JULD", "LONGITUDE", "PRES", "TEMP">>}}
      \cup {UnreadableFile}

(***************************************************************************)
(* generate_embeddings: the rows it creates from the stored values.        *)
(***************************************************************************)
\* the regions with the Bay of Bengal starting at 60 E, inside the Arabian Sea
regions_overlapping ==
    <<[name |-> "Arabian Sea", lat_range |-> <<Num(0), Num(30)>>,
       lon_range |-> <<Num(40), Num(80)>>],
      [name |-> "Bay of Bengal", lat_range |-> <<Num(0), Num(30)>>,
       lon_range |-> <<Num(60), Num(100)>>],
      [name |-> "Central Indian Ocean", lat_range |-> <<Num(-30), Num(0)>>,
       lon_range |-> <<Num(60), Num(100)>>],
      [name |-> "Southern Indian Ocean", lat_range |-> <<Num(-60), Num(-30)>>,
       lon_range |-> <<Num(20), Num(150)>>]>>

regions ==
    <<[name |-> "Arabian Sea", lat_range |-> <<Num(0), Num(30)>>,
       lon_range |-> <<Num(40), Num(80)>>],
      [name |-> "Bay of Bengal", lat_range |-> <<Num(0), Num(30)>>,
       lon_range |-> <<Num(80), Num(100)>>],
      [name |-> "Central Indian Ocean", lat_range |-> <<Num(-30), Num(0)>>,
       lon_range |-> <<Num(60), Num(100)>>],
      [name |-> "Southern Indian Ocean", lat_range |-> <<Num(-60), Num(-30)>>,
       lon_range |-> <<Num(20), Num(150)>>]>>

\* the region filter with the upper bounds included
InRegionClosed(rec, region) ==
    /\ Le(region.lat_range[1], rec.lat) /\ Le(rec.lat, region.lat_range[2])
    /\ Le(region.lon_range[1], rec.lon) /\ Le(rec.lon, region.lon_range[2])

\* lat__gte, lat__lt, lon__gte, lon__lt
InRegion(rec, region) ==
    /\ Le(region.lat_range[1], rec.lat) /\ Lt(rec.lat, region.lat_range[2])
    /\ Le(region.lon_range[1], rec.lon) /\ Lt(rec.lon, region.lon_range[2])

\* NetCDFEmbedding(dataset, variable, time, region, embedding, summary); of
\* the embedding text, ','.join(map(str, vector)), the row keeps the number
\* of components
NetCDFEmbedding(variable, region, dim) ==
    [variable |-> variable, region |-> region, dim |-> dim]

\* `for i in range(768)` of generate_fallback_embedding
EmbeddingDim == 768

\* the texts the calls are made with: the first four inputs of the RFC 1321
\* test suite and the regional summaries of one measurement
Texts ==
    {"",
     "a",
     "abc",
     "message digest",
     "ARGO temperature in Arabian Sea: 1 measurements. Mean=5.00, Range=[5.00, 5.00]",
     "ARGO temperature in Bay of Bengal: 1 measurements. Mean=5.00, Range=[5.00, 5.00]",
     "ARGO temperature in Central Indian Ocean: 1 measurements. Mean=5.00, Range=[5.00, 5.00]",
     "ARGO temperature in Southern Indian Ocean: 1 measurements. Mean=5.00, Range=[5.00, 5.00]",
     "ARGO salinity in Arabian Sea: 1 measurements. Mean=35.00, Range=[35.00, 35.00]",
     "ARGO salinity in Bay of Bengal: 1 measurements. Mean=35.00, Range=[35.00, 35.00]",
     "ARGO salinity in Central Indian Ocean: 1 measurements. Mean=35.00, Range=[35.00, 35.00]",
     "ARGO salinity in Southern Indian Ocean: 1 measurements. Mean=35.00, Range=[35.00, 35.00]",
     "ARGO pressure in Arabian Sea: 1 measurements. Mean=10.00, Range=[10.00, 10.00]",
     "ARGO pressure in Bay of Bengal: 1 measurements. Mean=10.00, Range=[10.00, 10.00]",
     "ARGO pressure in Central Indian Ocean: 1 measurements. Mean=10.00, Range=[10.00, 10.00]",
     "ARGO pressure in Southern Indian Ocean: 1 measurements. Mean=10.00, Range=[10.00, 10.00]"}

\* hashlib.md5(text.encode()).digest(): the 16 bytes of the MD5 digest
md5(text) ==
    CASE text = "" ->
            <<212, 29, 140, 217, 143, 0, 178, 4, 233, 128, 9, 152, 236, 248, 66, 126>>
      [] text = "a" ->
            <<12, 193, 117, 185, 192, 241, 182, 168, 49, 195, 153, 226, 105, 119, 38, 97>>
      [] text = "abc" ->
            <<144, 1, 80, 152, 60, 210, 79, 176, 214, 150, 63, 125, 40, 225, 127, 114>>
      [] text = "message digest" ->
            <<249, 107, 105, 125, 124, 183, 147, 141, 82, 90, 47, 49, 170, 241, 97, 208>>
      [] text = "ARGO temperature in Arabian Sea: 1 measurements. Mean=5.00, Range=[5.00, 5.00]" ->
            <<232, 178, 52, 137, 244, 105, 62, 121, 64, 160, 106, 146, 241, 108, 50, 35>>
      [] text = "ARGO temperature in Bay of Bengal: 1 measurements. Mean=5.00, Range=[5.00, 5.00]" ->
            <<40, 244, 73, 241, 94, 134, 141, 230, 196, 188, 142, 215, 23, 11, 108, 237>>
      [] text = "ARGO temperature in Central Indian Ocean: 1 measurements. Mean=5.00, Range=[5.00, 5.00]" ->
            <<119, 251, 225, 243, 195, 192, 60, 174, 69, 166, 216, 188, 121, 142, 191, 58>>
      [] text = "ARGO temperature in Southern Indian Ocean: 1 measurements. Mean=5.00, Range=[5.00, 5.00]" ->
            <<50, 105, 121, 192, 138, 90, 236, 220, 136, 89, 71, 246, 187, 181, 103, 129>>
      [] text = "ARGO salinity in Arabian Sea: 1 measurements. Mean=35.00, Range=[35.00, 35.00]" ->
            <<152, 96, 97, 214, 60, 195, 132, 195, 83, 106, 192, 99, 99, 132, 137, 166>>
      [] text = "ARGO salinity in Bay of Bengal: 1 measurements. Mean=35.00, Range=[35.00, 35.00]" ->
            <<78, 25, 99, 27, 247, 55, 172, 172, 99, 112, 194, 162, 1, 98, 255, 208>>
      [] text = "ARGO salinity in Central Indian Ocean: 1 measurements. Mean=35.00, Range=[35.00, 35.00]" ->
            <<249, 69, 172, 107, 138, 67, 19, 157, 18, 100, 70, 83, 212, 133, 11, 104>>
      [] text = "ARGO salinity in Southern Indian Ocean: 1 measurements. Mean=35.00, Range=[35.00, 35.00]" ->
            <<249, 252, 32, 179, 33, 30, 22, 218, 161, 78, 118, 219, 148, 225, 157, 93>>
      [] text = "ARGO pressure in Arabian Sea: 1 measurements. Mean=10.00, Range=[10.00, 10.00]" ->
            <<88, 138, 175, 21, 238, 127, 107, 117, 40, 109, 240, 100, 177, 45, 172, 202>>
      [] text = "ARGO pressure in Bay of Bengal: 1 measurements. Mean=10.00, Range=[10.00, 10.00]" ->
            <<68, 71, 60, 178, 72, 30, 92, 158, 43, 222, 16, 34, 217, 160, 247, 130>>
      [] text = "ARGO pressure in Central Indian Ocean: 1 measurements. Mean=10.00, Range=[10.00, 10.00]" ->
            <<45, 235, 150, 116, 199, 68, 119, 115, 84, 9, 98, 148, 128, 150, 147, 61>>
      [] text = "ARGO pressure in Southern Indian Ocean: 1 measurements. Mean=10.00, Range=[10.00, 10.00]" ->
            <<84, 7, 225, 176, 126, 236, 247, 116, 135, 101, 82, 136, 155, 6, 223, 250>>

\* the function with `byte_val / 128.0` for `(byte_val - 128) / 128.0`
generate_fallback_embedding_unshifted(text) ==
    LET hash_bytes == md5(text)
    IN  [n \in 1..EmbeddingDim |->
            [num |-> hash_bytes[((n - 1) % Len(hash_bytes)) + 1], den |-> 128]]

\* generate_fallback_embedding; a component (byte_val - 128) / 128.0 is the
\* fraction num/den, which the float division renders exactly; the code's
\* index i is n - 1
generate_fallback_embedding(text) ==
    LET hash_bytes == md5(text)
    IN  [n \in 1..EmbeddingDim |->
            [num |-> hash_bytes[((n - 1) % Len(hash_bytes)) + 1] - 128,
             den |-> 128]]

\* the length of embedding_model.encode(text): 384 for the default
\* MODEL_NAME all-MiniLM-L6-v2, 768 for a model such as all-mpnet-base-v2
ModelDims == {384, 768}

\* what the worker's environment gives generate_embeddings:
\*   available  SENTENCE_TRANSFORMERS_AVAILABLE, the import succeeded
\*   loads      SentenceTransformer(model_name) returns a model
\*   encodes    embedding_model.encode(summary) returns a vector
\*   dim        the length of that vector
Embedder(available, loads, encodes, dim) ==
    [available |-> available, loads |-> loads, encodes |-> encodes, dim |-> dim]
\* sentence-transformers is not installed: the import at lines 26-31 failed
NoSentenceTransformers == Embedder(FALSE, FALSE, FALSE, 0)
Embedders ==
    {NoSentenceTransformers, Embedder(TRUE, FALSE, FALSE, 0),
     Embedder(TRUE, TRUE, FALSE, 0)}
        \cup {Embedder(TRUE, TRUE, TRUE, d) : d \in ModelDims}

\* lines 464-467: the length of the vector of a summary
VectorDim(e) == IF e.available THEN e.dim ELSE EmbeddingDim

\* the rows of one variable: the global summary, then one row per region
\* that holds a value of the variable
RECURSIVE RegionRows(_, _, _, _)
RegionRows(values, var_name, i, dim) ==
    IF i > Len(regions) THEN <<>>
    ELSE (IF \E j \in 1..Len(values) :
                values[j].variable = var_name /\ InRegion(values[j], regions[i])
          THEN <<NetCDFEmbedding(var_name, regions[i].name, dim)>>
          ELSE <<>>)
         \o RegionRows(values, var_name, i + 1, dim)

VariableRows(values, var_name, dim) ==
    IF \E j \in 1..Len(values) : values[j].variable = var_name
    THEN <<NetCDFEmbedding(var_name, "Indian Ocean", dim)>>
            \o RegionRows(values, var_name, 1, dim)
    ELSE <<>>

\* embeddings_to_create for the stored values of the dataset
EmbeddingRows(values, dim) ==
    VariableRows(values, "temperature", dim) \o VariableRows(values, "salinity", dim)
        \o VariableRows(values, "pressure", dim)

(***************************************************************************)
(* State.                                                                  *)
(***************************************************************************)
VARIABLES
    file,        \* the NetCDF file at the dataset's path
    status,      \* the stored status of the Dataset row; "none": no row yet
    file_path,   \* whether the row's file_path is non-blank
    stored,      \* the dataset_values rows of the dataset, in insertion order
    embeddings,  \* the dataset_embeddings rows of the dataset
    queue,       \* task messages dispatched and not yet picked up by a worker
    redelivered, \* duplicate deliveries so far
    runs,        \* the executions of process_netcdf_file_task
    calls,       \* the calls of the `process` action
    embedder,    \* the embedding model of the worker's environment
    fallback_calls, \* the calls of generate_fallback_embedding: text and result
    ds,            \* EnhancedArgoProcessor: the profile of the opened dataset
    quality_flags, \* EnhancedArgoProcessor: config.quality_flags, the whitelist
    extracted,     \* EnhancedArgoProcessor: what the extraction returned
    argo_pc        \* EnhancedArgoProcessor: position in _extract_single_slice

argo_vars == <<ds, quality_flags, extracted, argo_pc>>
django_vars ==
    <<file, status, file_path, stored, embeddings, queue, redelivered, runs, calls,
      embedder, fallback_calls>>
vars == <<django_vars, argo_vars>>

Runs == 1..MaxRuns
Calls == 1..MaxCalls

\* an execution that has not started.  status is the status field of the
\* run's in-memory dataset object, which every dataset.save() writes back.
\* The fields after result record what happened, for the properties:
\*   final_flush  "ok", "failed", or "empty" when the buffer was empty
\*   embed        "ok" or "failed": how generate_embeddings ended
\*   embed_error  what raised in it: "model" (the embedding model could not
\*                be loaded or its encode raised) or "database"
\*   embed_rows   number of rows generate_embeddings created
\*   flush_errors in-loop bulk inserts that raised
\*   inserts      the sizes of the bulk inserts that succeeded, in order
\*   after_error  profiles visited after an in-loop bulk insert raised
\*   stored_before number of stored rows when the run started
\* now is what datetime.now() gave the run; 0 until it is read
IdleRun ==
    [pc |-> "idle", status |-> "none", nc_open |-> FALSE, prof_idx |-> 0,
     records_to_create |-> <<>>, total_records |-> 0, result |-> "none",
     final_flush |-> "none", embed |-> "none", embed_error |-> "none",
     embed_rows |-> 0, flush_errors |-> 0,
     inserts |-> <<>>, after_error |-> 0, stored_before |-> 0, now |-> 0]

IdleCall == [pc |-> "idle", response |-> "none"]

(***************************************************************************)
(* The views.                                                              *)
(***************************************************************************)
\* the validation of upload_netcdf_file_public: the file opens and has a
\* latitude and a longitude variable
UploadAccepts(f) == f.readable /\ ~MissingPosition(f)

\* upload_netcdf_file / upload_netcdf_file_public: create the row with
\* status uploaded and dispatch the task
Upload ==
    /\ status = "none"
    /\ UploadAccepts(file)
    /\ status' = "uploaded"
    /\ file_path' = TRUE
    /\ queue' = queue + 1
    /\ UNCHANGED <<file, stored, embeddings, redelivered, runs, calls>>
    /\ UNCHANGED <<embedder, fallback_calls, argo_vars>>

\* NetCDFDatasetViewSet.create: a row with the default status; file_path is
\* whatever the request gave, blank allowed; nothing is dispatched
CreateDataset(path) ==
    /\ status = "none"
    /\ status' = "uploaded"
    /\ file_path' = path
    /\ UNCHANGED <<file, stored, embeddings, queue, redelivered, runs, calls>>
    /\ UNCHANGED <<embedder, fallback_calls, argo_vars>>

SetCall(c, pc, response) ==
    calls' = [calls EXCEPT ![c] = [pc |-> pc, response |-> response]]

\* process: get_object and the status guard
ProcessGuard(c) ==
    /\ calls[c].pc = "idle"
    /\ \A b \in Calls : b < c => calls[b].pc # "idle"
    /\ status # "none"
    /\ IF status # "uploaded"
       THEN SetCall(c, "returned", "400 not uploaded")
       ELSE SetCall(c, "guarded", "none")
    /\ UNCHANGED <<file, status, file_path, stored, embeddings, queue, redelivered, runs>>
    /\ UNCHANGED <<embedder, fallback_calls, argo_vars>>

\* process: dataset.status = 'processing'; dataset.save(); then the
\* file_path check, which returns 400 when the path is blank
ProcessSave(c) ==
    /\ calls[c].pc = "guarded"
    /\ status' = "processing"
    /\ IF ~file_path
       THEN SetCall(c, "returned", "400 no file path")
       ELSE SetCall(c, "saved", "none")
    /\ UNCHANGED <<file, file_path, stored, embeddings, queue, redelivered, runs>>
    /\ UNCHANGED <<embedder, fallback_calls, argo_vars>>

\* process: process_netcdf_file_task.delay(...) and the response
ProcessDispatch(c) ==
    /\ calls[c].pc = "saved"
    /\ queue' = queue + 1
    /\ SetCall(c, "returned", "200 processing started")
    /\ UNCHANGED <<file, status, file_path, stored, embeddings, redelivered, runs>>
    /\ UNCHANGED <<embedder, fallback_calls, argo_vars>>

\* process: delay raises (broker unreachable); the except marks the
\* dataset failed and answers 500
ProcessDispatchError(c) ==
    /\ calls[c].pc = "saved"
    /\ status' = "failed"
    /\ SetCall(c, "returned", "500")
    /\ UNCHANGED <<file, file_path, stored, embeddings, queue, redelivered, runs>>
    /\ UNCHANGED <<embedder, fallback_calls, argo_vars>>

\* the broker delivers a task message of the dataset a second time
Redeliver ==
    /\ redelivered < MaxRedeliver
    /\ \E r \in Runs : runs[r].pc # "idle"
    /\ redelivered' = redelivered + 1
    /\ queue' = queue + 1
    /\ UNCHANGED <<file, status, file_path, stored, embeddings, runs, calls>>
    /\ UNCHANGED <<embedder, fallback_calls, argo_vars>>

(***************************************************************************)
(* process_netcdf_file_task.  A run is cut at its accesses to the shared   *)
(* database, so that runs of the same dataset interleave there.            *)
(***************************************************************************)
SetRun(r, run) == runs' = [runs EXCEPT ![r] = run]

\* TaskStart that deletes the dataset's values before it parses again
TaskStartClearsValues(r) ==
    /\ runs[r].pc = "idle"
    /\ queue > 0
    /\ status # "none"
    /\ queue' = queue - 1
    /\ status' = "processing"
    /\ stored' = <<>>
    /\ \A q \in Runs : q < r => runs[q].pc # "idle"
    /\ SetRun(r, [runs[r] EXCEPT !.pc = "parse", !.status = "processing",
                                 !.stored_before = 0])
    /\ UNCHANGED <<file, file_path, embeddings, redelivered, calls>>
    /\ UNCHANGED <<embedder, fallback_calls, argo_vars>>

\* lines 59-65: a worker picks a message up, loads the dataset, sets
\* status = 'processing' and saves.  create_vector_tables() follows; it
\* catches its own errors and touches none of the modelled state.
TaskStart(r) ==
    /\ runs[r].pc = "idle"
    /\ queue > 0
    /\ status # "none"
    /\ queue' = queue - 1
    /\ status' = "processing"
    /\ \A q \in Runs : q < r => runs[q].pc # "idle"
    /\ SetRun(r, [runs[r] EXCEPT !.pc = "parse", !.status = "processing",
                                 !.stored_before = Len(stored)])
    /\ UNCHANGED <<file, file_path, stored, embeddings, redelivered, calls>>
    /\ UNCHANGED <<embedder, fallback_calls, argo_vars>>

\* parse_netcdf_data, lines 105-134: open the file and save the metadata.
\* dataset.save() writes the run's in-memory status back.  When the file
\* cannot be opened the outer except marks the dataset failed and re-raises.
ParseOpen(r) ==
    /\ runs[r].pc = "parse"
    /\ IF ~file.readable
       THEN /\ status' = "failed"
            /\ SetRun(r, [runs[r] EXCEPT !.pc = "handler", !.status = "failed"])
       ELSE /\ status' = runs[r].status
            /\ SetRun(r, [runs[r] EXCEPT !.pc = "opened", !.nc_open = TRUE])
    /\ UNCHANGED <<file, file_path, stored, embeddings, queue, redelivered, calls>>
    /\ UNCHANGED <<embedder, fallback_calls, argo_vars>>

\* ParseLocate without nc_dataset.close() on the ValueError path
ParseLocateLeavesOpen(r) ==
    /\ runs[r].pc = "opened"
    /\ IF MissingPosition(file)
       THEN /\ status' = "failed"
            /\ SetRun(r, [runs[r] EXCEPT !.pc = "handler", !.status = "failed"])
       ELSE /\ status' = status
            /\ \E now \in (IF time_var(file) = "" THEN ClockVals ELSE {0}) :
                  SetRun(r, [runs[r] EXCEPT !.pc = "profiles", !.prof_idx = 0,
                                            !.records_to_create = <<>>,
                                            !.total_records = 0, !.now = now])
    /\ UNCHANGED <<file, file_path, stored, embeddings, queue, redelivered, calls>>
    /\ UNCHANGED <<embedder, fallback_calls, argo_vars>>

\* lines 145-249 and 390-408: locate the channels; without latitude or
\* longitude raise ValueError: the file is closed, the dataset marked failed
\* and the error re-raised to the task.  Otherwise read the positions and
\* the times, which are the current time when the file has no time variable.
ParseLocate(r) ==
    /\ runs[r].pc = "opened"
    /\ IF MissingPosition(file)
       THEN /\ status' = "failed"
            /\ SetRun(r, [runs[r] EXCEPT !.pc = "handler", !.status = "failed",
                                         !.nc_open = FALSE])
       ELSE /\ status' = status
            /\ \E now \in (IF time_var(file) = "" THEN ClockVals ELSE {0}) :
                  SetRun(r, [runs[r] EXCEPT !.pc = "profiles", !.prof_idx = 0,
                                            !.records_to_create = <<>>,
                                            !.total_records = 0, !.now = now])
    /\ UNCHANGED <<file, file_path, stored, embeddings, queue, redelivered, calls>>
    /\ UNCHANGED <<embedder, fallback_calls, argo_vars>>

\* ParseProfile with `break` for the `continue` of the profile's except:
\* a profile that raises ends the loop
ParseProfileBreaks(r) ==
    LET run == runs[r]
        o == ProfileOutcome(file, run.prof_idx, run.now)
        buffer == run.records_to_create \o o.recs
        next == [run EXCEPT !.prof_idx = IF o.kind = "raised" THEN n_profiles(file)
                                         ELSE run.prof_idx + 1,
                            !.total_records = run.total_records + Len(o.recs),
                            !.after_error =
                                IF run.flush_errors > 0 THEN run.after_error + 1
                                ELSE run.after_error]
    IN  /\ run.pc = "profiles"
        /\ run.prof_idx < n_profiles(file)
        /\ IF o.kind = "walked" /\ Len(buffer) >= BatchThreshold
           THEN \/ /\ stored' = stored \o buffer
                   /\ SetRun(r, [next EXCEPT !.records_to_create = <<>>,
                                             !.inserts = Append(run.inserts, Len(buffer))])
                \/ /\ stored' = stored
                   /\ SetRun(r, [next EXCEPT !.records_to_create = buffer,
                                             !.flush_errors = run.flush_errors + 1])
           ELSE /\ stored' = stored
                /\ SetRun(r, [next EXCEPT !.records_to_create = buffer])
        /\ UNCHANGED <<file, status, file_path, embeddings, queue, redelivered, calls>>
        /\ UNCHANGED <<embedder, fallback_calls, argo_vars>>

\* lines 252-378: one iteration of the profile loop.  The flush check sits
\* inside the profile's try: a bulk_create that raises is caught by
\* `except Exception: continue`, the buffer keeps its records and the loop
\* goes on with the next profile.
ParseProfile(r) ==
    LET run == runs[r]
        o == ProfileOutcome(file, run.prof_idx, run.now)
        buffer == run.records_to_create \o o.recs
        next == [run EXCEPT !.prof_idx = run.prof_idx + 1,
                            !.total_records = run.total_records + Len(o.recs),
                            !.after_error =
                                IF run.flush_errors > 0 THEN run.after_error + 1
                                ELSE run.after_error]
    IN  /\ run.pc = "profiles"
        /\ run.prof_idx < n_profiles(file)
        /\ IF o.kind = "walked" /\ Len(buffer) >= BatchThreshold
           THEN \/ /\ stored' = stored \o buffer
                   /\ SetRun(r, [next EXCEPT !.records_to_create = <<>>,
                                             !.inserts = Append(run.inserts, Len(buffer))])
                \/ /\ stored' = stored
                   /\ SetRun(r, [next EXCEPT !.records_to_create = buffer,
                                             !.flush_errors = run.flush_errors + 1])
           ELSE /\ stored' = stored
                /\ SetRun(r, [next EXCEPT !.records_to_create = buffer])
        /\ UNCHANGED <<file, status, file_path, embeddings, queue, redelivered, calls>>
        /\ UNCHANGED <<embedder, fallback_calls, argo_vars>>

\* the end of the parse without the insert of what is left
ParseFinishNoInsert(r) ==
    /\ runs[r].pc = "profiles"
    /\ runs[r].prof_idx = n_profiles(file)
    /\ SetRun(r, [runs[r] EXCEPT !.pc = "embed", !.nc_open = FALSE,
                                 !.final_flush = "empty"])
    /\ UNCHANGED <<file, status, file_path, stored, embeddings, queue,
                   redelivered, calls>>
    /\ UNCHANGED <<embedder, fallback_calls, argo_vars>>

\* lines 380-408: after the loop, insert what is left and close the file.
\* A bulk_create that raises here is outside the profile's try: the file is
\* closed, the dataset marked failed and the error re-raised to the task.
\* The dataset.save() of the except (line 407) goes to the database that
\* has just refused the insert: it stores 'failed', or raises in its turn
\* and leaves the stored status as it was.
ParseFinish(r) ==
    LET run == runs[r]
    IN  /\ run.pc = "profiles"
        /\ run.prof_idx = n_profiles(file)
        /\ IF run.records_to_create # <<>>
           THEN \/ /\ stored' = stored \o run.records_to_create
                   /\ status' = status
                   /\ SetRun(r, [run EXCEPT !.pc = "embed", !.nc_open = FALSE,
                                            !.final_flush = "ok",
                                            !.inserts = Append(run.inserts,
                                                Len(run.records_to_create))])
                \/ /\ stored' = stored
                   /\ status' \in {"failed", status}
                   /\ SetRun(r, [run EXCEPT !.pc = "handler", !.nc_open = FALSE,
                                            !.status = "failed",
                                            !.final_flush = "failed"])
           ELSE /\ stored' = stored
                /\ status' = status
                /\ SetRun(r, [run EXCEPT !.pc = "embed", !.nc_open = FALSE,
                                         !.final_flush = "empty"])
        /\ UNCHANGED <<file, file_path, embeddings, queue, redelivered, calls>>
        /\ UNCHANGED <<embedder, fallback_calls, argo_vars>>

\* generate_embeddings, lines 410-534.  The whole body is inside
\* `try: ... except Exception: logger.error(...)`: an error creates no row
\* and is not passed on.  get_embedding_model() comes first and raises when
\* the model cannot be loaded; a dataset without values returns early; the
\* summaries are encoded by the model when sentence-transformers was
\* imported and by generate_fallback_embedding otherwise; the rows are
\* created together by one bulk_create.
GenerateEmbeddings(r) ==
    /\ runs[r].pc = "embed"
    /\ \/ LET e == embedder
              rows == EmbeddingRows(stored, VectorDim(e))
          IN  IF e.available /\ (~e.loads \/ (stored # <<>> /\ ~e.encodes))
              THEN /\ embeddings' = embeddings
                   /\ SetRun(r, [runs[r] EXCEPT !.pc = "complete",
                                                !.embed = "failed",
                                                !.embed_error = "model"])
              ELSE /\ embeddings' = embeddings \o rows
                   /\ SetRun(r, [runs[r] EXCEPT !.pc = "complete",
                                                !.embed = "ok",
                                                !.embed_rows = Len(rows)])
       \/ /\ embeddings' = embeddings
          /\ SetRun(r, [runs[r] EXCEPT !.pc = "complete", !.embed = "failed",
                                       !.embed_error = "database"])
    /\ UNCHANGED <<file, status, file_path, stored, queue, redelivered, calls>>
    /\ UNCHANGED <<embedder, fallback_calls, argo_vars>>

\* lines 82-87: status = 'completed', save, return {"status": "completed"}
TaskComplete(r) ==
    /\ runs[r].pc = "complete"
    /\ status' = "completed"
    /\ SetRun(r, [runs[r] EXCEPT !.pc = "returned", !.status = "completed",
                                 !.result = "completed"])
    /\ UNCHANGED <<file, file_path, stored, embeddings, queue, redelivered, calls>>
    /\ UNCHANGED <<embedder, fallback_calls, argo_vars>>

\* lines 92-101: the task's except: reload the dataset, status = 'failed',
\* save, return {"status": "failed", "error": ...}.  The reload and the
\* save are in a try of their own: when one of them raises, which the
\* model allows after a final flush that was refused, the error is logged,
\* the stored status stays as it is, and the task returns the same result.
TaskHandler(r) ==
    /\ runs[r].pc = "handler"
    /\ \/ status' = "failed"
       \/ runs[r].final_flush = "failed" /\ status' = status
    /\ SetRun(r, [runs[r] EXCEPT !.pc = "returned", !.status = "failed",
                                 !.result = "failed"])
    /\ UNCHANGED <<file, file_path, stored, embeddings, queue, redelivered, calls>>
    /\ UNCHANGED <<embedder, fallback_calls, argo_vars>>

(***************************************************************************)
(* EnhancedArgoProcessor: the extraction of one profile                    *)
(* (ds.X.isel(N_PROF=prof_idx).values for each variable X).  An optional   *)
(* variable is [present, a].  The extraction returns lists of values; the  *)
(* model returns the levels the values come from, so that the value at     *)
(* place j of the returned temperature list is ds.temp.a[extracted.temp[j]]*)
(***************************************************************************)
\* config.max_depth
max_depth == 2000

Present(a) == [present |-> TRUE, a |-> a]
Absent == [present |-> FALSE, a |-> <<>>]

ArgoProfile(temp, temp_qc, psal, psal_qc, pres, pres_qc) ==
    [temp |-> temp, temp_qc |-> temp_qc, psal |-> psal, psal_qc |-> psal_qc,
     pres |-> pres, pres_qc |-> pres_qc]

Levels(a) == [i \in 1..Len(a) |-> i]

\* s[mask]: the entries of s at the places where mask is true
Compress(s, mask) ==
    LET js == SelectSeq([j \in 1..Len(s) |-> j], LAMBDA j : mask[j])
    IN  [k \in 1..Len(js) |-> s[js[k]]]

\* a QC mask that keeps every level
QcMaskKeepAll(qc, flags) == [i \in 1..Len(qc) |-> TRUE]

\* np.isin(qc, self.quality_flags), per level
QcMask(qc, flags) == [i \in 1..Len(qc) |-> qc[i] \in flags]

\* `~np.isnan(x) & ~np.isnan(pres) & (pres <= self.max_depth)` for one entry
DepthValid(x, p) == ~isnan(x) /\ ~isnan(p) /\ Le(p, Num(max_depth))

\* the QC step shared by the three functions: the levels kept and their flags
QcFiltered(arr, qc, flags) ==
    IF qc.present
    THEN [levels |-> Compress(Levels(arr.a), QcMask(qc.a, flags)),
          qc |-> Compress(qc.a, QcMask(qc.a, flags))]
    ELSE [levels |-> Levels(arr.a), qc |-> <<>>]

\* the NaN and depth step of _extract_temperature_data and
\* _extract_salinity_data on the arrays left by the QC step: x (levels xs of
\* arr, flags xq) against pres (levels ps).  numpy broadcasts the mask when
\* one side has length 1, raises ValueError when the lengths cannot be
\* broadcast and IndexError when the mask is not as long as x; the except
\* of the function then returns [], [].
DepthFiltered(arr, xs, xq, pres, ps) ==
    LET n == Len(xs)
        m == Len(ps)
        broadcast == n = m \/ n = 1 \/ m = 1
        masklen == IF n = m THEN n ELSE IF n = 1 THEN m ELSE n
        mask == [j \in 1..masklen |->
                    DepthValid(arr.a[xs[IF n = 1 THEN 1 ELSE j]],
                               pres.a[ps[IF m = 1 THEN 1 ELSE j]])]
    IN  IF ~broadcast \/ masklen # n
        THEN [levels |-> <<>>, qc |-> <<>>, error |-> TRUE]
        ELSE [levels |-> Compress(xs, mask),
              qc |-> IF xq # <<>> THEN Compress(xq, mask) ELSE xq,
              error |-> FALSE]

\* _extract_temperature_data: QC on TEMP, QC on PRES, then NaN and depth
extract_temperature_data(d, flags) ==
    IF ~d.temp.present THEN [levels |-> <<>>, qc |-> <<>>, error |-> FALSE]
    ELSE LET t == QcFiltered(d.temp, d.temp_qc, flags)
             p == QcFiltered(d.pres, d.pres_qc, flags)
         IN  IF d.pres.present
             THEN DepthFiltered(d.temp, t.levels, t.qc, d.pres, p.levels)
             ELSE [levels |-> t.levels, qc |-> t.qc, error |-> FALSE]

\* _extract_salinity_data: QC on PSAL, then NaN and depth against the whole
\* PRES array (PRES_QC is not applied here)
extract_salinity_data(d, flags) ==
    IF ~d.psal.present THEN [levels |-> <<>>, qc |-> <<>>, error |-> FALSE]
    ELSE LET x == QcFiltered(d.psal, d.psal_qc, flags)
         IN  IF d.pres.present
             THEN DepthFiltered(d.psal, x.levels, x.qc, d.pres, Levels(d.pres.a))
             ELSE [levels |-> x.levels, qc |-> x.qc, error |-> FALSE]

\* _extract_pressure_data: QC on PRES, then NaN and depth
extract_pressure_data(d, flags) ==
    IF ~d.pres.present THEN <<>>
    ELSE LET p == QcFiltered(d.pres, d.pres_qc, flags).levels
         IN  Compress(p, [j \in 1..Len(p) |->
                             ~isnan(d.pres.a[p[j]])
                                 /\ Le(d.pres.a[p[j]], Num(max_depth))])

NothingExtracted ==
    [temp |-> <<>>, temp_qc |-> <<>>, temp_error |-> FALSE,
     sal |-> <<>>, sal_qc |-> <<>>, sal_error |-> FALSE, pres |-> <<>>]

\* _extract_single_slice, line 230
ExtractTemperature ==
    /\ argo_pc = "start"
    /\ LET t == extract_temperature_data(ds, quality_flags)
       IN  extracted' = [extracted EXCEPT !.temp = t.levels, !.temp_qc = t.qc,
                                          !.temp_error = t.error]
    /\ argo_pc' = "temperature"
    /\ UNCHANGED <<ds, quality_flags>>
    /\ UNCHANGED django_vars

\* _extract_single_slice, line 231
ExtractSalinity ==
    /\ argo_pc = "temperature"
    /\ LET x == extract_salinity_data(ds, quality_flags)
       IN  extracted' = [extracted EXCEPT !.sal = x.levels, !.sal_qc = x.qc,
                                          !.sal_error = x.error]
    /\ argo_pc' = "salinity"
    /\ UNCHANGED <<ds, quality_flags>>
    /\ UNCHANGED django_vars

\* _extract_single_slice, line 232
ExtractPressure ==
    /\ argo_pc = "salinity"
    /\ extracted' = [extracted EXCEPT !.pres = extract_pressure_data(ds, quality_flags)]
    /\ argo_pc' = "done"
    /\ UNCHANGED <<ds, quality_flags>>
    /\ UNCHANGED django_vars

\* the profiles and whitelists SpecArgo ranges over
QcVals == {1, 4}
Whitelists == {{}, {1, 2}, {1, 2, 4}}
ArgoVals == {Num(5), NaN}
ArgoPresVals == {Num(10), Num(9999), NaN}
Optional(S) == {Absent} \cup {Present(a) : a \in S}

\* TEMP with and without TEMP_QC, PRES, PRES_QC; no PSAL
TemperatureProfiles ==
    UNION {{ArgoProfile(Present(t), tq, Absent, Absent, p, pq) :
              t \in SeqsOfLen(ArgoVals, n),
              tq \in Optional(SeqsOfLen(QcVals, n)),
              p \in Optional(SeqsOfLen(ArgoPresVals, n)),
              pq \in Optional(SeqsOfLen(QcVals, n))} :
           n \in 1..MaxLevels}

\* PSAL with and without PSAL_QC, PRES, PRES_QC; no TEMP
SalinityProfiles ==
    UNION {{ArgoProfile(Absent, Absent, Present(x), xq, p, pq) :
              x \in SeqsOfLen(ArgoVals, n),
              xq \in Optional(SeqsOfLen(QcVals, n)),
              p \in Optional(SeqsOfLen(ArgoPresVals, n)),
              pq \in Optional(SeqsOfLen(QcVals, n))} :
           n \in 1..MaxLevels}

\* PRES_QC comes with PRES
ArgoProfiles ==
    {d \in TemperatureProfiles \cup SalinityProfiles :
        d.pres_qc.present => d.pres.present}

ArgoIdle ==
    /\ ds = ArgoProfile(Absent, Absent, Absent, Absent, Absent, Absent)
    /\ quality_flags = {}
    /\ extracted = NothingExtracted
    /\ argo_pc = "off"

(***************************************************************************)
(* Specifications.                                                         *)
(***************************************************************************)
\* no dataset yet; any file of LifecycleFiles waits to be uploaded
Init ==
    /\ file \in LifecycleFiles
    /\ status = "none"
    /\ file_path = FALSE
    /\ stored = <<>>
    /\ embeddings = <<>>
    /\ queue = 0
    /\ redelivered = 0
    /\ runs = [r \in Runs |-> IdleRun]
    /\ calls = [c \in Calls |-> IdleCall]
    /\ embedder = NoSentenceTransformers
    /\ fallback_calls = <<>>
    /\ ArgoIdle

Next ==
    \/ Upload
    \/ \E path \in BOOLEAN : CreateDataset(path)
    \/ Redeliver
    \/ \E c \in Calls :
          \/ ProcessGuard(c)
          \/ ProcessSave(c)
          \/ ProcessDispatch(c)
          \/ ProcessDispatchError(c)
    \/ \E r \in Runs :
          \/ TaskStart(r)
          \/ ParseOpen(r)
          \/ ParseLocate(r)
          \/ ParseProfile(r)
          \/ ParseFinish(r)
          \/ GenerateEmbeddings(r)
          \/ TaskComplete(r)
          \/ TaskHandler(r)

Spec == Init /\ [][Next]_vars

\* one uploaded dataset over any file of ParseFiles, its task dispatched
\* once, executed by one worker
InitParse ==
    /\ file \in ParseFiles
    /\ status = "uploaded"
    /\ file_path = TRUE
    /\ stored = <<>>
    /\ embeddings = <<>>
    /\ queue = 1
    /\ redelivered = 0
    /\ runs = [r \in Runs |-> IdleRun]
    /\ calls = [c \in Calls |-> IdleCall]
    /\ embedder = NoSentenceTransformers
    /\ fallback_calls = <<>>
    /\ ArgoIdle

NextParse ==
    \/ TaskStart(1)
    \/ ParseOpen(1)
    \/ ParseLocate(1)
    \/ ParseProfile(1)
    \/ ParseFinish(1)
    \/ GenerateEmbeddings(1)
    \/ TaskComplete(1)
    \/ TaskHandler(1)

SpecParse == InitParse /\ [][NextParse]_vars

\* positions for the summaries: one in each named sub-region, on the edge
\* between two of them, and two in the region but in no sub-region
RegionPositions ==
    {<<Num(10), Num(60)>>, <<Num(0), Num(80)>>, <<Num(-10), Num(70)>>,
     <<Num(-40), Num(100)>>, <<Num(10), Num(30)>>, <<Num(30), Num(150)>>}

\* profiles at RegionPositions with one level of pressure and salinity and a
\* temperature that is valid or missing
EmbedFiles ==
    UNION {{MkFile(TRUE, ArgoVars,
                   [i \in 1..n |-> pos[i][1]], [i \in 1..n |-> pos[i][2]],
                   Arr1(<<Num(10)>>), Arr2([i \in 1..n |-> <<ts[i]>>]),
                   Arr1(<<Num(35)>>)) :
              pos \in SeqsOfLen(RegionPositions, n),
              ts \in SeqsOfLen({Num(5), NaN}, n)} :
           n \in 1..MaxProf}

\* one run as in SpecParse, over the files of EmbedFiles, in every
\* environment of Embedders
InitEmbed ==
    /\ file \in EmbedFiles
    /\ status = "uploaded"
    /\ file_path = TRUE
    /\ stored = <<>>
    /\ embeddings = <<>>
    /\ queue = 1
    /\ redelivered = 0
    /\ runs = [r \in Runs |-> IdleRun]
    /\ calls = [c \in Calls |-> IdleCall]
    /\ embedder \in Embedders
    /\ fallback_calls = <<>>
    /\ ArgoIdle

SpecEmbed == InitEmbed /\ [][NextParse]_vars

(***************************************************************************)
(* generate_fallback_embedding called on its own, on any text of Texts.    *)
(***************************************************************************)
\* one call: the text and the vector returned
FallbackCall ==
    /\ Len(fallback_calls) < MaxFallbackCalls
    /\ \E text \in Texts :
          fallback_calls' =
              Append(fallback_calls,
                     [text |-> text, embedding |-> generate_fallback_embedding(text)])
    /\ UNCHANGED <<file, status, file_path, stored, embeddings, queue,
                   redelivered, runs, calls, embedder>>
    /\ UNCHANGED argo_vars

InitFallback ==
    /\ file = UnreadableFile
    /\ status = "none"
    /\ file_path = FALSE
    /\ stored = <<>>
    /\ embeddings = <<>>
    /\ queue = 0
    /\ redelivered = 0
    /\ runs = [r \in Runs |-> IdleRun]
    /\ calls = [c \in Calls |-> IdleCall]
    /\ embedder = NoSentenceTransformers
    /\ fallback_calls = <<>>
    /\ ArgoIdle

NextFallback == FallbackCall

SpecFallback == InitFallback /\ [][NextFallback]_vars

\* EnhancedArgoProcessor on any profile of ArgoProfiles under any whitelist
InitArgo ==
    /\ file = UnreadableFile
    /\ status = "none"
    /\ file_path = FALSE
    /\ stored = <<>>
    /\ embeddings = <<>>
    /\ queue = 0
    /\ redelivered = 0
    /\ runs = [r \in Runs |-> IdleRun]
    /\ calls = [c \in Calls |-> IdleCall]
    /\ embedder = NoSentenceTransformers
    /\ fallback_calls = <<>>
    /\ ds \in ArgoProfiles
    /\ quality_flags \in Whitelists
    /\ extracted = NothingExtracted
    /\ argo_pc = "start"

NextArgo ==
    \/ ExtractTemperature
    \/ ExtractSalinity
    \/ ExtractPressure

SpecArgo == InitArgo /\ [][NextArgo]_vars

(***************************************************************************)
(* Properties.                                                             *)
(***************************************************************************)
StoredRecs == {stored[i] : i \in 1..Len(stored)}
Returned(r) == runs[r].pc = "returned"

\* C1: once the status is completed or failed it never changes again; the
\* only status changes of an existing dataset are uploaded -> processing,
\* processing -> completed and processing -> failed.
\* The task sets 'processing' without looking at the current status, so a
\* duplicate delivery takes a completed dataset back to processing.
C1_StatusTransitions ==
    [][status' # status =>
          <<status, status'>> \in {<<"none", "uploaded">>,
                                   <<"uploaded", "processing">>,
                                   <<"processing", "completed">>,
                                   <<"processing", "failed">>}]_vars

\* C2: when a run of the task returns, or a call of `process` that got past
\* its status guard returns an error response, the status is not processing:
\* the error has moved the dataset to failed.
\* `process` saves 'processing' before it checks file_path and returns 400
\* for a blank path without touching the status again.
C2_NeverLeftProcessing ==
    [][/\ \A c \in Calls :
            (/\ calls[c].pc # "returned"
             /\ calls'[c].pc = "returned"
             /\ calls'[c].response \in {"400 no file path", "500"})
                => status' = "failed"
       /\ \A r \in Runs :
            (runs[r].pc # "returned" /\ runs'[r].pc = "returned")
                => /\ status' # "processing"
                   /\ runs'[r].result = "failed" => status' = "failed"]_vars

\* C3: a run completes the dataset only if its final flush succeeded (or
\* there was nothing left to flush) and generate_embeddings succeeded.
\* generate_embeddings swallows its errors, so the run completes anyway.
C3_CompletedOnlyAfterEmbedding ==
    \A r \in Runs :
        runs[r].result = "completed"
            => /\ runs[r].final_flush \in {"ok", "empty"}
               /\ runs[r].embed = "ok"

\* C4: a bulk insert that fails, in the loop or at the end, aborts the run:
\* no later profile is visited, the embedding step is not reached, and the
\* run returns failed with the dataset failed.
\* The in-loop bulk insert is inside the profile's try/except.
C4_FlushFailureAborts ==
    \A r \in Runs :
        (runs[r].flush_errors > 0 \/ runs[r].final_flush = "failed")
            => /\ runs[r].after_error = 0
               /\ runs[r].embed = "none"
               /\ Returned(r) => runs[r].result = "failed" /\ status = "failed"

\* C5: every stored record has a finite value, whatever its variable.
\* The pressure record takes depth as its value and depth is only checked
\* for NaN, so an infinite pressure is stored.
C5_StoredValuesFinite ==
    \A rec \in StoredRecs : rec.value.k = "num"

\* C6: no stored record has a depth above the maximum depth.
\* parse_netcdf_data has no depth cutoff: the 9999 level of scenario B is
\* stored for every variable.
C6_DepthWithinMax ==
    \A rec \in StoredRecs :
        rec.depth # None => rec.depth.k = "num" /\ rec.depth.v <= max_depth

\* the region of the claim, written out
InsideBox(lat, lon) ==
    /\ lat.k = "num" /\ lon.k = "num"
    /\ -60 <= lat.v /\ lat.v <= 30
    /\ 20 <= lon.v /\ lon.v <= 150

\* C7: every stored record lies inside -60 <= lat <= 30, 20 <= lon <= 150,
\* and its position is the position of a profile of the file that lies
\* inside: a profile outside the box or at NaN leaves no record, clipped or
\* not.  The same holds of the records still in the buffer.
C7_StoredInsideRegion ==
    \A rec \in StoredRecs \cup Range(runs[1].records_to_create) :
        /\ InsideBox(rec.lat, rec.lon)
        /\ \E p \in 1..Len(file.latitudes) :
              /\ rec.lat = file.latitudes[p]
              /\ rec.lon = file.longitudes[p]

\* C7 happens: a run over a file with a profile outside the region (or at
\* NaN) and a profile inside has returned with records stored
C7_Witness ==
    /\ Returned(1)
    /\ stored # <<>>
    /\ \E p \in 1..Len(file.latitudes) :
          ~InsideBox(file.latitudes[p], file.longitudes[p])

\* C8: in EnhancedArgoProcessor, a level whose QC flag is not in the
\* whitelist is in none of the returned lists of a channel that has a QC
\* array, whatever its value.
C8_RejectedFlagsNeverExtracted ==
    /\ ds.temp_qc.present =>
          \A j \in 1..Len(extracted.temp) :
              ds.temp_qc.a[extracted.temp[j]] \in quality_flags
    /\ ds.psal_qc.present =>
          \A j \in 1..Len(extracted.sal) :
              ds.psal_qc.a[extracted.sal[j]] \in quality_flags
    /\ ds.pres_qc.present =>
          \A j \in 1..Len(extracted.pres) :
              ds.pres_qc.a[extracted.pres[j]] \in quality_flags

\* C8 happens: whitelist {1, 2}; a level flagged 4 holds a good value and is
\* left out while another level of the channel is returned
C8_Witness ==
    /\ argo_pc = "done"
    /\ quality_flags = {1, 2}
    /\ ds.temp_qc.present
    /\ extracted.temp # <<>>
    /\ \E i \in 1..Len(ds.temp.a) :
          /\ ds.temp_qc.a[i] = 4
          /\ ds.temp.a[i] = Num(5)
          /\ \A j \in 1..Len(extracted.temp) : extracted.temp[j] # i

\* the profile without its QC arrays
WithoutQc(d) ==
    [d EXCEPT !.temp_qc = Absent, !.psal_qc = Absent, !.pres_qc = Absent]

\* C9: with an empty whitelist no sample is rejected for its QC flag: what
\* is extracted equals what the other rules (NaN, maximum depth) accept,
\* which is what the extraction returns for the profile without QC arrays.
\* np.isin(flags, []) is false everywhere, so every level is rejected.
C9_EmptyWhitelistRejectsNothing ==
    (argo_pc = "done" /\ quality_flags = {})
        => /\ extracted.temp = extract_temperature_data(WithoutQc(ds), {}).levels
           /\ extracted.sal = extract_salinity_data(WithoutQc(ds), {}).levels
           /\ extracted.pres = extract_pressure_data(WithoutQc(ds), {})

\* the file has no latitude alias or no longitude alias, written out
NoPositionAlias(f) ==
    \/ \A i \in 1..Len(f.variables) : lower(f.variables[i]) \notin {"latitude", "lat"}
    \/ \A i \in 1..Len(f.variables) : lower(f.variables[i]) \notin {"longitude", "lon"}

ParsedWithoutError(r) == runs[r].final_flush \in {"ok", "empty"}

\* the file has a variable under one of the names
HasAlias(f, names) ==
    \E i \in 1..Len(f.variables) : lower(f.variables[i]) \in names

\* C11: over a file with positions but no pressure variable, a parse that
\* went through has stored, for every profile inside the region, one
\* temperature record and one salinity record with depth null per valid
\* sample of the profile.
\* Without a pressure variable pressures is [None], np.isnan(None) raises at
\* level 0 and the profile's except drops the whole profile.
C11_AbsentPressureKeepsSamples ==
    (/\ ParsedWithoutError(1)
     /\ HasAlias(file, {"latitude", "lat"})
     /\ HasAlias(file, {"longitude", "lon"})
     /\ ~HasAlias(file, {"pres", "pressure", "pres_adjusted"}))
        => \A p \in 1..Len(file.latitudes) :
              InsideBox(file.latitudes[p], file.longitudes[p]) =>
                 /\ \A l \in 1..Len(temperatures(file, p - 1)) :
                       temperatures(file, p - 1)[l].k = "num" =>
                          \E rec \in StoredRecs :
                              /\ rec.variable = "temperature"
                              /\ rec.lat = file.latitudes[p]
                              /\ rec.lon = file.longitudes[p]
                              /\ rec.depth = None
                              /\ rec.value = temperatures(file, p - 1)[l]
                 /\ \A l \in 1..Len(salinities(file, p - 1)) :
                       salinities(file, p - 1)[l].k = "num" =>
                          \E rec \in StoredRecs :
                              /\ rec.variable = "salinity"
                              /\ rec.lat = file.latitudes[p]
                              /\ rec.lon = file.longitudes[p]
                              /\ rec.depth = None
                              /\ rec.value = salinities(file, p - 1)[l]

\* the sum of a sequence of numbers
RECURSIVE Sum(_)
Sum(s) == IF s = <<>> THEN 0 ELSE Head(s) + Sum(Tail(s))

\* C12: a parse that went through with every bulk insert succeeding has
\* made ceil(n / threshold) bulk inserts for its n accepted records: every
\* insert but the last carries exactly the threshold, the last at most the
\* threshold and at least one record.
\* The threshold is tested once per profile, after the profile's levels,
\* and the insert carries the whole buffer.
C12_FlushesOfThreshold ==
    (ParsedWithoutError(1) /\ runs[1].flush_errors = 0)
        => LET ins == runs[1].inserts
           IN  /\ Sum(ins) = runs[1].total_records
               /\ \A i \in 1..Len(ins) :
                     IF i < Len(ins) THEN ins[i] = BatchThreshold
                     ELSE ins[i] >= 1 /\ ins[i] <= BatchThreshold

\* C13: the buffer of a run never holds more records than the threshold and
\* no bulk insert carries more.
\* A profile appends all its records before the threshold is tested.
C13_BufferBounded ==
    \A r \in Runs :
        /\ Len(runs[r].records_to_create) <= BatchThreshold
        /\ \A i \in 1..Len(runs[r].inserts) : runs[r].inserts[i] <= BatchThreshold

\* the records the profile loop accepts from a file, in the order it
\* appends them
RECURSIVE AcceptedFrom(_, _, _)
AcceptedFrom(f, prof_idx, now) ==
    IF prof_idx >= Len(f.latitudes) THEN <<>>
    ELSE ProfileOutcome(f, prof_idx, now).recs \o AcceptedFrom(f, prof_idx + 1, now)

\* the rows the run has added to the table
StoredBy(r) == SubSeq(stored, runs[r].stored_before + 1, Len(stored))

C15_NoDuplicateRows ==
    \A i, j \in 1..Len(stored) : stored[i] = stored[j] => i = j

\* the rows of the embedding table
EmbeddingRecs == {embeddings[i] : i \in 1..Len(embeddings)}

\* C16: when the embedding model fails (it cannot be loaded, or its encode
\* raises) and the database does not, a run whose parse stored records
\* still completes and has created the summary rows, each with the
\* fallback vector of 768 components.
\* The fallback is only taken when sentence-transformers could not be
\* imported; an error of the model is caught by the except around the whole
\* of generate_embeddings and no row is created.
C16_ModelFailureFallsBack ==
    (/\ Returned(1)
     /\ ParsedWithoutError(1)
     /\ stored # <<>>
     /\ embedder.available /\ (~embedder.loads \/ ~embedder.encodes)
     /\ runs[1].embed_error # "database")
        => /\ runs[1].result = "completed"
           /\ status = "completed"
           /\ embeddings # <<>>
           /\ \A row \in EmbeddingRecs : row.dim = 768

\* C18: every row of the embedding table carries a vector of 768
\* components, whichever generator made it.
\* The vector of the sentence-transformers model is stored as encode
\* returns it: 384 components with the default all-MiniLM-L6-v2.
C18_VectorsOfConfiguredDim ==
    \A i \in 1..Len(embeddings) : embeddings[i].dim = EmbeddingDim

\* the named sub-regions, lower bounds included, upper bounds excluded
InSubRegion(name, lat, lon) ==
    CASE name = "Arabian Sea" ->
            0 <= lat.v /\ lat.v < 30 /\ 40 <= lon.v /\ lon.v < 80
      [] name = "Bay of Bengal" ->
            0 <= lat.v /\ lat.v < 30 /\ 80 <= lon.v /\ lon.v < 100
      [] name = "Central Indian Ocean" ->
            -30 <= lat.v /\ lat.v < 0 /\ 60 <= lon.v /\ lon.v < 100
      [] name = "Southern Indian Ocean" ->
            -60 <= lat.v /\ lat.v < -30 /\ 20 <= lon.v /\ lon.v < 150
      [] OTHER -> FALSE
SubRegionNames ==
    {"Arabian Sea", "Bay of Bengal", "Central Indian Ocean", "Southern Indian Ocean"}

\* the number of embedding rows of a variable and a region
RowsOf(var, region) ==
    Cardinality({i \in 1..Len(embeddings) :
                    embeddings[i].variable = var /\ embeddings[i].region = region})

UniformShape(f) ==
    /\ f \in ShapeFiles
    /\ pres_var(f) # "" /\ temp_var(f) # "" /\ psal_var(f) # ""
    /\ f.pres.ndim = f.temp.ndim /\ f.temp.ndim = f.psal.ndim
\* the channel values one profile of the file carries
ValuesPerProfile(f) ==
    Len(f.pres.data[1]) + Len(f.temp.data[1]) + Len(f.psal.data[1])

\* C19: a file of N valid in-region profiles with K valid channel values
\* each, its channels 2-D, 1-D or scalar, is stored as N*K records when
\* the parse returns without error.
C19_StoresProfilesTimesValues ==
    (UniformShape(file) /\ ParsedWithoutError(1))
        => Len(stored) = Len(file.latitudes) * ValuesPerProfile(file)
\* the same for the 2-D and 1-D shapes only
C19_ArrayShapesOnly ==
    (UniformShape(file) /\ file.pres.ndim >= 1 /\ ParsedWithoutError(1))
        => Len(stored) = Len(file.latitudes) * ValuesPerProfile(file)

ActiveRun(r) == runs[r].pc \notin {"idle", "returned"}

\* C21: at most one run of process_netcdf_file_task is active on the
\* dataset at any time, under every interleaving of the upload's dispatch,
\* the calls of `process` and duplicate deliveries.
C21_SingleActiveRun ==
    Cardinality({r \in Runs : ActiveRun(r)}) <= 1

\* C22: the NetCDF file handle of a run is open only between the open and
\* the end of parse_netcdf_data: once the parse has returned or raised
\* (normal completion, missing position variables, failed flush) the
\* handle is closed, and it stays closed to the end of the run.
C22_FileClosedAfterParse ==
    \A r \in Runs : runs[r].nc_open => runs[r].pc \in {"opened", "profiles"}

\* C22 happens: a parse that opened the file raised on a failed final
\* flush, after an in-loop flush had failed too, and the handle is closed
C22_Witness ==
    /\ runs[1].pc = "handler"
    /\ file.readable
    /\ runs[1].final_flush = "failed"
    /\ runs[1].flush_errors > 0
    /\ ~runs[1].nc_open

\* the six channels: the alias list and the variable the locator selected
Channels(f) ==
    {<<time_names, time_var(f)>>, <<lat_names, lat_var(f)>>,
     <<lon_names, lon_var(f)>>, <<pres_names, pres_var(f)>>,
     <<temp_names, temp_var(f)>>, <<psal_names, psal_var(f)>>}
\* the lower-cased variable names of a file
LoweredNames(f) == {lower(f.variables[i]) : i \in 1..Len(f.variables)}
\* the variables of a file whose lower-cased name is one of the aliases
OwnVariables(f, aliases) ==
    SelectSeq(f.variables, LAMBDA v : lower(v) \in Range(aliases))

\* C23: for each channel the locator selects the file variable whose
\* lower-cased name is the first alias, in the declared order, that some
\* variable of the file matches; a channel without a matching alias stays
\* unset; the selection is the same when the variables of the other
\* channels are taken out of the file.
C23_FirstAliasInDeclaredOrder ==
    \A ch \in Channels(file) :
        LET aliases == ch[1]
            selected == ch[2]
            matching == {i \in 1..Len(aliases) : aliases[i] \in LoweredNames(file)}
        IN  /\ matching = {} => selected = ""
            /\ matching # {} =>
                  /\ selected \in Range(file.variables)
                  /\ \E i \in matching :
                        /\ lower(selected) = aliases[i]
                        /\ \A j \in matching : i <= j
            /\ selected = Locate(aliases, OwnVariables(file, aliases))

\* C23 happens: the run located the channels of a file that has both TEMP
\* and Temperature and no salinity variable: TEMP is selected, salinity
\* stays unset
C23_Witness ==
    /\ runs[1].pc = "profiles"
    /\ "TEMP" \in Range(file.variables)
    /\ "Temperature" \in Range(file.variables)
    /\ temp_var(file) = "TEMP"
    /\ psal_var(file) = ""

\* run r hands its buffer to bulk_create in this step
Submits(r) ==
    \/ runs'[r].flush_errors > runs[r].flush_errors
    \/ Len(runs'[r].inserts) > Len(runs[r].inserts)
    \/ runs[r].final_flush = "none" /\ runs'[r].final_flush = "failed"
\* the last thing run r did was an in-loop bulk insert that raised: its
\* buffer is the batch that failed
JustFailed(r) ==
    /\ runs[r].pc = "profiles"
    /\ runs[r].flush_errors = 1
    /\ runs[r].after_error = 0

\* C24: no automatic retry: a batch whose bulk insert raised is not handed
\* to bulk_create again within the run.
C24_FailedBatchNotResubmitted ==
    [][\A r \in Runs : JustFailed(r) => ~Submits(r)]_vars

\* the records parse_netcdf_data makes of the files that have a time
\* variable: their timestamps are converted from the file's time values
ConvertedRecords ==
    UNION {Range(ProfileOutcome(g, p, 0).recs) :
              <<g, p>> \in {<<g, p>> \in ParseFiles \X (0..(MaxProf - 1)) :
                               /\ g.readable
                               /\ time_var(g) # ""
                               /\ p < n_profiles(g)}}

\* C25: a stored record whose timestamp is the wall-clock time of the run
\* (the file has no time variable) differs from every record whose
\* timestamp was converted from a file's time values.
C25_FabricatedTimeDistinguishable ==
    time_var(file) = "" => \A rec \in StoredRecs : rec \notin ConvertedRecords

\* C26: no step of the pipeline modifies or deletes a stored record or
\* deletes the Dataset row: the rows stored before a step are the first
\* rows stored after it, unchanged, and a row that exists keeps existing.
C26_StoredOnlyGrows ==
    [][/\ Len(stored') >= Len(stored)
       /\ SubSeq(stored', 1, Len(stored)) = stored
       /\ status # "none" => status' # "none"]_vars

\* C26 happens: a second run started over the records a first run had
\* stored and failed, and the records are still there
C26_Witness ==
    /\ runs[2].stored_before > 0
    /\ runs[2].result = "failed"
    /\ Len(stored) >= runs[2].stored_before

\* C27: in the step in which process_netcdf_file_task returns, the result
\* agrees with the status stored at that moment: `completed` is returned
\* only with the stored status `completed`, and `failed` only with the
\* stored status `failed`.
C27_ResultAgreesWithStatus ==
    [][\A r \in Runs :
          (runs[r].pc # "returned" /\ runs'[r].pc = "returned")
              => status' = runs'[r].result]_vars

\* the profile raises while its data is read or converted
Faulty(f, prof_idx, now) == ProfileOutcome(f, prof_idx, now).kind = "raised"
\* the records of the profiles that do not raise, each as the loop makes it
\* on its own, in ascending order of the profile index
RECURSIVE SoundFrom(_, _, _)
SoundFrom(f, prof_idx, now) ==
    IF prof_idx >= Len(f.latitudes) THEN <<>>
    ELSE (IF Faulty(f, prof_idx, now) THEN <<>>
          ELSE ProfileOutcome(f, prof_idx, now).recs)
         \o SoundFrom(f, prof_idx + 1, now)

\* C28: when no bulk insert raised, a profile that raised took nothing
\* with it: every profile index was visited, and the rows the run stored are
\* the records of the other profiles, in ascending order of the profiles,
\* as if the faulty profile were not in the file.
C28_FaultyProfileIsolated ==
    (ParsedWithoutError(1) /\ runs[1].flush_errors = 0)
        => /\ runs[1].prof_idx = n_profiles(file)
           /\ StoredBy(1) = SoundFrom(file, 0, runs[1].now)

\* C28 happens: the first profile of the file raised, a later one did not,
\* and the parse went through with the records of the later one stored
C28_Witness ==
    /\ ParsedWithoutError(1)
    /\ runs[1].flush_errors = 0
    /\ Faulty(file, 0, runs[1].now)
    /\ \E p \in 1..(n_profiles(file) - 1) : ~Faulty(file, p, runs[1].now)
    /\ stored # <<>>

\* the regions of generate_embeddings a position lies in
RegionsOf(lat, lon) ==
    {k \in 1..Len(regions) : InRegion([lat |-> lat, lon |-> lon], regions[k])}
\* the count of the regional summary of a variable in region k, and the
\* count of its global summary
RegionalCount(var, k) ==
    Cardinality({i \in 1..Len(stored) :
                    stored[i].variable = var /\ InRegion(stored[i], regions[k])})
GlobalCount(var) ==
    Cardinality({i \in 1..Len(stored) : stored[i].variable = var})

\* C29: the four named sub-regions are pairwise disjoint: no position, on
\* a boundary or next to one, lies in two of them; every stored record is
\* counted in at most one regional summary, and for each variable the
\* regional counts add up to at most the count of the global summary.
C29_SubRegionsDisjoint ==
    /\ \A a \in {-60, -31, -30, -1, 0, 29, 30} :
          \A b \in {20, 40, 59, 60, 79, 80, 99, 100, 149, 150} :
             Cardinality(RegionsOf(Num(a), Num(b))) <= 1
    /\ \A rec \in StoredRecs : Cardinality(RegionsOf(rec.lat, rec.lon)) <= 1
    /\ \A var \in {"temperature", "salinity", "pressure"} :
          Sum([k \in 1..Len(regions) |-> RegionalCount(var, k)]) <= GlobalCount(var)

\* C29 happens: the pass made regional summaries of pressure for two
\* sub-regions, one of them from a record on their common boundary
C29_Witness ==
    /\ runs[1].embed = "ok"
    /\ RowsOf("pressure", "Arabian Sea") = 1
    /\ RowsOf("pressure", "Bay of Bengal") = 1
    /\ \E rec \in StoredRecs : rec.lat = Num(0) /\ rec.lon = Num(80)

\* the level's own pressure passes the depth filter
OwnPressureValid(i) ==
    /\ i <= Len(ds.pres.a)
    /\ ~isnan(ds.pres.a[i])
    /\ Le(ds.pres.a[i], Num(max_depth))

\* C30: in EnhancedArgoProcessor with a pressure array, every temperature
\* and every salinity value returned comes from a level whose own pressure
\* is not NaN and at most max_depth, also after QC filtering removed
\* levels, and a returned QC list is as long as the returned value list.
C30_DepthFilterLevelWise ==
    ds.pres.present =>
        /\ \A j \in 1..Len(extracted.temp) : OwnPressureValid(extracted.temp[j])
        /\ \A j \in 1..Len(extracted.sal) : OwnPressureValid(extracted.sal[j])
        /\ ds.temp_qc.present => Len(extracted.temp_qc) = Len(extracted.temp)
        /\ ds.psal_qc.present => Len(extracted.sal_qc) = Len(extracted.sal)
====
